---- MODULE Spec2Model ----
(***************************************************************************)
(* Model of tabref.py: numbering of the citations of a deluxetable.        *)
(* A Python string is a sequence of one-character strings, a file is a     *)
(* sequence of lines (each with its line break), a list is a sequence.     *)
(* Python indices are kept 0-based; a sequence is read at index + 1.       *)
(***************************************************************************)
EXTENDS Integers, Sequences, FiniteSets, TLC

\* ------------------------------------------------------------------ bounds
MaxCalls == 2
MaxRows == 2

\* ------------------------------------------------- Python string built-ins
\* The characters the tables use, in ASCII order (the order of str.__lt__).
Ascii ==
  <<"\t", "\n", "\r", " ", "&", "(", ")", ",", ".",
    "0", "1", "2", "3", "4", "5", "6", "7", "8", "9",
    "A", "B", "C", "R", "\\",
    "a", "b", "c", "d", "e", "f", "h", "i", "l", "n", "o", "p", "r", "s",
    "t", "x", "{", "}">>

ord(c) == CHOOSE i \in 1..Len(Ascii) : Ascii[i] = c

Whitespace == {" ", "\t", "\n", "\r"}

Digits == <<"0", "1", "2", "3", "4", "5", "6", "7", "8", "9">>

\* s < t for two strings: the first differing character decides, a proper
\* prefix is smaller.
RECURSIVE StrLess(_, _)
StrLess(s, t) ==
  IF t = <<>> THEN FALSE
  ELSE IF s = <<>> THEN TRUE
  ELSE IF Head(s) = Head(t) THEN StrLess(Tail(s), Tail(t))
  ELSE ord(Head(s)) < ord(Head(t))

\* list.index(x) and str.index(c): 0-based position of the first occurrence,
\* -1 where Python raises ValueError.
index(s, x) ==
  IF \E i \in 1..Len(s) : s[i] = x
  THEN (CHOOSE i \in 1..Len(s) : s[i] = x /\ \A j \in 1..(i - 1) : s[j] # x) - 1
  ELSE -1

RECURSIVE rstrip(_, _)
rstrip(s, chars) ==
  IF s # <<>> /\ s[Len(s)] \in chars
  THEN rstrip(SubSeq(s, 1, Len(s) - 1), chars)
  ELSE s

RECURSIVE lstrip(_, _)
lstrip(s, chars) ==
  IF s # <<>> /\ Head(s) \in chars THEN lstrip(Tail(s), chars) ELSE s

\* str.split(sep) for a one-character separator.
RECURSIVE split(_, _)
split(s, sep) ==
  LET p == index(s, sep)
  IN  IF p = -1 THEN <<s>>
      ELSE <<SubSeq(s, 1, p)>> \o split(SubSeq(s, p + 2, Len(s)), sep)

StartsWith(s, p) == Len(s) >= Len(p) /\ SubSeq(s, 1, Len(p)) = p

RECURSIVE Interleave(_, _)
Interleave(s, new) ==
  IF s = <<>> THEN new ELSE new \o <<Head(s)>> \o Interleave(Tail(s), new)

\* str.replace(old, new): every non-overlapping occurrence, left to right;
\* an empty old matches before every character and at the end.
RECURSIVE ReplaceScan(_, _, _)
ReplaceScan(s, old, new) ==
  IF s = <<>> THEN <<>>
  ELSE IF StartsWith(s, old)
       THEN new \o ReplaceScan(SubSeq(s, Len(old) + 1, Len(s)), old, new)
       ELSE <<Head(s)>> \o ReplaceScan(Tail(s), old, new)

replace(s, old, new) ==
  IF old = <<>> THEN Interleave(s, new) ELSE ReplaceScan(s, old, new)

\* str(i) for i >= 0.
RECURSIVE str(_)
str(i) ==
  IF i < 10 THEN <<Digits[i + 1]>>
  ELSE str(i \div 10) \o <<Digits[(i % 10) + 1]>>

\* sep.join(list)
RECURSIVE join(_, _)
join(sep, l) ==
  IF l = <<>> THEN <<>>
  ELSE IF Len(l) = 1 THEN l[1]
  ELSE l[1] \o sep \o join(sep, Tail(l))

RECURSIVE Insert(_, _)
Insert(x, l) ==
  IF l = <<>> THEN <<x>>
  ELSE IF StrLess(x, Head(l)) THEN <<x>> \o l
  ELSE <<Head(l)>> \o Insert(x, Tail(l))

\* sorted(list of strings)
RECURSIVE sorted(_)
sorted(l) == IF l = <<>> THEN <<>> ELSE Insert(Head(l), sorted(Tail(l)))

\* ''.join(list)
RECURSIVE concat(_)
concat(l) == IF l = <<>> THEN <<>> ELSE Head(l) \o concat(Tail(l))

\* ------------------------------------------------------------ the literals
StartMarker == <<"\\", "s", "t", "a", "r", "t", "d", "a", "t", "a", "\n">>
EndMarker == <<"\\", "e", "n", "d", "d", "a", "t", "a", "\n">>
CitetOpen == <<"\\", "c", "i", "t", "e", "t", "{">>
CitepOpen == <<"\\", "c", "i", "t", "e", "p", "{">>
CiteOpen == <<"\\", "c", "i", "t", "e", "{">>
NoteHead ==
  <<"\\", "t", "a", "b", "l", "e", "n", "o", "t", "e", "t", "e", "x", "t",
    "{", "}", "{", "{", "\\", "b", "f", " ", "R", "e", "f", "e", "r", "e",
    "n", "c", "e", "s", ".", "}", " ">>
ItemMid == <<")", " ", "\\", "c", "i", "t", "e", "t", "{">>
ItemEnd == <<"}", ",", " ">>
FieldSep == <<" ", "&", " ">>
RowCont == <<" ", "\\", "\\">>
CommaSpace == <<",", " ">>

\* ---------------------------------------------------------- the input files
HeadLine == <<"h", "\n">>
TailLine == <<"t", "\n">>
LastLine == <<"e">>
\* \citet{B} & \cite{A, B} \\
Row1 ==
  <<"\\", "c", "i", "t", "e", "t", "{", "B", "}", " ", "&", " ", "\\", "c",
    "i", "t", "e", "{", "A", ",", " ", "B", "}", " ", "\\", "\\", "\n">>
\* \citep{A,AB}
Row2 == <<"\\", "c", "i", "t", "e", "p", "{", "A", ",", "A", "B", "}", "\n">>
\* x &\citep{C,A}\\ (and a blank before the line break)
Row3 ==
  <<"x", " ", "&", "\\", "c", "i", "t", "e", "p", "{", "C", ",", "A", "}",
    "\\", "\\", " ", "\n">>

RowLines == <<Row1, Row2, Row3>>

RowSeqs == UNION {[1..n -> 1..Len(RowLines)] : n \in 0..MaxRows}

\* A path names the file it holds: the shape of the file and its data rows.
Paths ==
  [shape : {"ok"}, rows : RowSeqs]
    \cup [shape : {"nostart", "noend", "swapped", "absent"}, rows : {<<2>>}]

Rows(f) == [k \in 1..Len(f.rows) |-> RowLines[f.rows[k]]]

\* open(f, 'r') succeeds
Exists(f) == f.shape # "absent"

\* [x for x in fileinput.input(f)]: the lines of the file, line breaks kept.
ReadFile(f) ==
  CASE f.shape = "ok" ->
         <<HeadLine, StartMarker>> \o Rows(f) \o <<EndMarker, TailLine, LastLine>>
    [] f.shape = "nostart" ->
         <<HeadLine>> \o Rows(f) \o <<EndMarker, TailLine, LastLine>>
    [] f.shape = "noend" ->
         <<HeadLine, StartMarker>> \o Rows(f) \o <<TailLine, LastLine>>
    [] f.shape = "swapped" ->
         <<HeadLine, EndMarker>> \o Rows(f) \o <<StartMarker, TailLine, LastLine>>
    [] OTHER -> <<>>

\* The cols argument of order_refs: the default 'Last', or a list of columns.
Last == [isLast |-> TRUE, list |-> <<>>]
Cols(l) == [isLast |-> FALSE, list |-> l]
ColsArgs == {Last, Cols(<<1, 0>>)}

\* ------------------------------------------------------------ the pipeline
\* table_refs = {} : a dict is a function from its keys to their values.
EmptyDict == <<>>

has_key(d, k) == k \in DOMAIN d

\* The items of refs in the order of the three nested loops of
\* create_ref_dict: line by line, column by column, item by item.
Scan(refs) == concat([i \in 1..Len(refs) |-> concat(refs[i])])

RECURSIVE RefLoop(_, _, _)
RefLoop(items, d, i) ==
  IF items = <<>> THEN d
  ELSE IF has_key(d, Head(items))
       THEN RefLoop(Tail(items), d, i)
       ELSE RefLoop(Tail(items), (Head(items) :> i) @@ d, i + 1)

\* create_ref_dict with the counter started at 0 instead of 1.
create_ref_dict_FromZero(refs, d) == RefLoop(Scan(refs), d, 0)

\* create_ref_dict(refs), run on the global table_refs = d: its new value.
create_ref_dict(refs, d) == RefLoop(Scan(refs), d, 1)

\* sorted(table_refs.items(), key=lambda x: x[1]): the items by value; items
\* of equal value come in the dict's iteration order, which is any order.
RECURSIVE SortedItems(_)
SortedItems(d) ==
  IF DOMAIN d = {} THEN {<<>>}
  ELSE LET least == {k \in DOMAIN d : \A k2 \in DOMAIN d : d[k] <= d[k2]}
       IN  UNION {{<<(<<k, d[k]>>)>> \o rest :
                     rest \in SortedItems([k2 \in DOMAIN d \ {k} |-> d[k2]])} :
                  k \in least}

\* table_note_gen without the rstrip(', ') of the item list.
table_note_gen_NoStrip(src) ==
  LET clist == concat([n \in 1..Len(src) |->
                 <<"(">> \o str(src[n][2]) \o ItemMid \o src[n][1] \o ItemEnd])
  IN  NoteHead \o clist \o <<"}">>

\* table_note_gen, given src = sorted(table_refs.items(), ...).
table_note_gen(src) ==
  LET clist == concat([n \in 1..Len(src) |->
                 <<"(">> \o str(src[n][2]) \o ItemMid \o src[n][1] \o ItemEnd])
  IN  NoteHead \o rstrip(clist, {",", " "}) \o <<"}">>

\* x.rstrip('\n').rstrip().rstrip('\\\\').split('&') for x in table[start+1:end]
SplitRow(x) ==
  split(rstrip(rstrip(rstrip(x, {"\n"}), Whitespace), {"\\"}), "&")

Data(table, start, end) ==
  LET region == SubSeq(table, start + 2, end)
  IN  [k \in 1..Len(region) |-> SplitRow(region[k])]

\* x[c][x[c].index('{') + 1 : x[c].index('}')]
Cite(field) == SubSeq(field, index(field, "{") + 2, index(field, "}"))

\* What reading the citations of field c of row x raises, if anything.
CiteError(x, c) ==
  IF c >= Len(x) THEN "IndexError"
  ELSE IF index(x[c + 1], "{") = -1 \/ index(x[c + 1], "}") = -1
       THEN "ValueError"
       ELSE "ok"

\* The first error of the comprehension that builds cites, rows outermost.
CitesError(data, col) ==
  LET errs == concat([i \in 1..Len(data) |->
                 [j \in 1..Len(col) |-> CiteError(data[i], col[j])]])
      bad == {n \in 1..Len(errs) : errs[n] # "ok"}
  IN  IF bad = {} THEN "ok"
      ELSE errs[CHOOSE n \in bad : \A m \in bad : n <= m]

\* refs = [[x[i].split(',') for i in range(len(col))] for x in cites]
Refs(data, col) ==
  [i \in 1..Len(data) |->
     [j \in 1..Len(col) |-> split(Cite(data[i][col[j] + 1]), ",")]]

RECURSIVE ReplaceKeys(_, _, _)
ReplaceKeys(cell, keys, d) ==
  IF keys = <<>> THEN cell
  ELSE ReplaceKeys(replace(cell, Head(keys), str(d[Head(keys)])), Tail(keys), d)

\* The body of the loop over j of order_refs for one cell.
RewriteCell(cell, keys, d) ==
  LET a == ReplaceKeys(cell, keys, d)
      b == replace(replace(a, CitetOpen, <<>>), CitepOpen, <<>>)
      c == replace(replace(b, CiteOpen, <<>>), <<"}">>, <<>>)
  IN  join(CommaSpace, sorted(split(lstrip(rstrip(c, Whitespace), Whitespace), ",")))

RECURSIVE RewriteRow(_, _, _, _, _)
RewriteRow(x, rowrefs, col, d, j) ==
  IF j > Len(col) THEN x
  ELSE RewriteRow([x EXCEPT ![col[j] + 1] = RewriteCell(@, rowrefs[j], d)],
                  rowrefs, col, d, j + 1)

\* data after the loop over i and j of order_refs.
Rewrite(data, refs, col, d) ==
  [i \in 1..Len(data) |-> RewriteRow(data[i], refs[i], col, d, 1)]

\* write_to_file with range(start) for range(start + 1) in its first loop.
write_to_file_ShortHead(table, data, tablenote, start, end) ==
  concat(SubSeq(table, 1, start))
    \o concat([i \in 1..Len(data) |->
                 data[i] \o (IF i - 1 < Len(data) - 1 THEN RowCont ELSE <<>>)
                         \o <<"\n">>])
    \o table[end + 1] \o <<"\n">>
    \o tablenote \o <<"\n">>
    \o concat(SubSeq(table, end + 2, Len(table)))

\* The text write_to_file writes to f + '_new'.
write_to_file(table, data, tablenote, start, end) ==
  concat(SubSeq(table, 1, start + 1))
    \o concat([i \in 1..Len(data) |->
                 data[i] \o (IF i - 1 < Len(data) - 1 THEN RowCont ELSE <<>>)
                         \o <<"\n">>])
    \o table[end + 1] \o <<"\n">>
    \o tablenote \o <<"\n">>
    \o concat(SubSeq(table, end + 2, Len(table)))

\* A run that raises after f + '_new' was opened for writing: the file is
\* there, and empty.
Raise_AfterOpen(status, d) ==
  [status |-> status, table_refs |-> d, wrote |-> TRUE, content |-> <<>>,
   start |-> -1, end |-> -1, col |-> <<>>, refs |-> <<>>, data |-> <<>>,
   tablenote |-> <<>>]

\* A run of order_refs that raises: nothing was computed, nothing written.
Raise(status, d) ==
  [status |-> status, table_refs |-> d, wrote |-> FALSE, content |-> <<>>,
   start |-> -1, end |-> -1, col |-> <<>>, refs |-> <<>>, data |-> <<>>,
   tablenote |-> <<>>]

\* order_refs(f, cols) with the global table_refs = d on entry: the possible
\* outcomes (the exception or "ok", the new table_refs, the file written).
order_refs(f, cols, d) ==
  IF ~Exists(f) THEN {Raise("SystemExit", d)}
  ELSE
  LET table == ReadFile(f)
      start == index(table, StartMarker)
      end == index(table, EndMarker)
  IN
  IF start = -1 \/ end = -1 THEN {Raise("ValueError", d)}
  ELSE
  LET data == Data(table, start, end)
  IN
  IF cols.isLast /\ data = <<>> THEN {Raise("IndexError", d)}
  ELSE
  LET col == IF cols.isLast THEN <<Len(data[1]) - 1>> ELSE cols.list
  IN
  IF CitesError(data, col) # "ok" THEN {Raise(CitesError(data, col), d)}
  ELSE
  LET refs == Refs(data, col)
      d2 == create_ref_dict(refs, d)
      data2 == Rewrite(data, refs, col, d2)
      data_new == [i \in 1..Len(data2) |-> join(FieldSep, data2[i])]
  IN  {[status |-> "ok", table_refs |-> d2, wrote |-> TRUE,
        content |-> write_to_file(table, data_new, table_note_gen(src), start, end),
        start |-> start, end |-> end, col |-> col, refs |-> refs,
        data |-> data2, tablenote |-> table_note_gen(src)] :
       src \in SortedItems(d2)}

\* ------------------------------------------------------ the command line
\* sys.argv is the program name, then the file path if one was given, then
\* the column arguments.
ArgvSet ==
  [hasFile : {FALSE}, f : {[shape |-> "absent", rows |-> <<2>>]}, colargs : {<<>>}]
    \cup [hasFile : {TRUE}, f : {[shape |-> "ok", rows |-> <<1>>]},
          colargs : {<<>>, <<1>>, <<0, 1>>}]

n_args(argv) == IF argv.hasFile THEN 2 + Len(argv.colargs) ELSE 1

\* The __main__ block: the exception it ends in and whether it got as far as
\* calling order_refs.  With n_args < 2 there is no sys.argv[1] to pass on;
\* otherwise the comprehension iterates over the integer n_args.
main(argv) ==
  IF n_args(argv) < 2
  THEN [status |-> "IndexError", called |-> FALSE, cols |-> Last]
  ELSE [status |-> "TypeError", called |-> FALSE, cols |-> Last]

\* ------------------------------------------------------------------- state
VARIABLES
  table_refs,   \* the module-level dict
  out,          \* the files f + '_new' that exist, by f, with their text
  last,         \* the last call made: its arguments and what it computed
  calls         \* the number of calls made so far

vars == <<table_refs, out, last, calls>>

NoPath == [shape |-> "absent", rows |-> <<2>>]

NoCall ==
  [kind |-> "none", f |-> NoPath, cols |-> Last, fresh |-> TRUE,
   argv |-> [hasFile |-> FALSE, f |-> NoPath, colargs |-> <<>>],
   called |-> FALSE, res |-> Raise("none", EmptyDict)]

Init ==
  /\ table_refs = EmptyDict
  /\ out = <<>>
  /\ last = NoCall
  /\ calls = 0

\* A call order_refs(f, cols) from a Python shell that imported the module.
OrderRefs(f, cols) ==
  /\ calls < MaxCalls
  /\ \E r \in order_refs(f, cols, table_refs) :
       /\ table_refs' = r.table_refs
       /\ out' = IF r.wrote THEN (f :> r.content) @@ out ELSE out
       /\ last' = [NoCall EXCEPT !.kind = "order_refs", !.f = f, !.cols = cols,
                     !.fresh = (table_refs = EmptyDict), !.called = TRUE,
                     !.res = r]
  /\ calls' = calls + 1

\* python tabref.py ... : a new process, so table_refs starts empty again.
Main(argv) ==
  /\ calls < MaxCalls
  /\ table_refs' = EmptyDict
  /\ last' = [NoCall EXCEPT !.kind = "main", !.argv = argv, !.f = argv.f,
                !.called = main(argv).called, !.cols = main(argv).cols,
                !.res = Raise(main(argv).status, EmptyDict)]
  /\ calls' = calls + 1
  /\ UNCHANGED out

Next ==
  \/ \E f \in Paths, cols \in ColsArgs : OrderRefs(f, cols)
  \/ \E argv \in ArgvSet : Main(argv)

Spec == Init /\ [][Next]_vars

\* ---------------------------------------------------------- the properties
\* The last call was order_refs and it returned normally.
Converted == last.kind = "order_refs" /\ last.res.status = "ok"

\* The text of a file as its lines, line breaks kept.
RECURSIVE SplitLines(_)
SplitLines(s) ==
  IF s = <<>> THEN <<>>
  ELSE LET p == index(s, "\n")
       IN  IF p = -1 THEN <<s>>
           ELSE <<SubSeq(s, 1, p + 1)>> \o SplitLines(SubSeq(s, p + 2, Len(s)))

\* The places <<row, column, item>> of the citation sets, and their order in
\* the scan: rows first, then columns, then items.
Places(refs) ==
  UNION {UNION {{<<i, j, n>> : n \in 1..Len(refs[i][j])} :
                j \in 1..Len(refs[i])} :
         i \in 1..Len(refs)}

Earlier(a, b) ==
  \/ a[1] < b[1]
  \/ a[1] = b[1] /\ a[2] < b[2]
  \/ a[1] = b[1] /\ a[2] = b[2] /\ a[3] < b[3]

KeyAt(refs, pl) == refs[pl[1]][pl[2]][pl[3]]

FirstPlace(refs, k) ==
  CHOOSE pl \in Places(refs) :
    /\ KeyAt(refs, pl) = k
    /\ \A q \in Places(refs) : KeyAt(refs, q) = k => ~Earlier(q, pl)

KeysOf(refs) == {KeyAt(refs, pl) : pl \in Places(refs)}

\* C1: after a conversion that started with an empty index, the rank of
\* every key is 1 plus the number of distinct keys that first appear earlier
\* in the scan (rows, then columns in the order of cols, then items), so the
\* ranks of the K keys are exactly 1..K.
C1_RankIsOrderOfFirstAppearance ==
  (Converted /\ last.fresh) =>
    LET refs == last.res.refs
        keys == KeysOf(refs)
    IN  /\ DOMAIN table_refs = keys
        /\ \A k \in keys :
             table_refs[k] =
               1 + Cardinality({k2 \in keys :
                      Earlier(FirstPlace(refs, k2), FirstPlace(refs, k))})
        /\ {table_refs[k] : k \in keys} = 1..Cardinality(keys)

\* Two rows, two citation columns, three keys or more, one of them repeated.
C1_Witness ==
  /\ Converted /\ last.fresh
  /\ Len(last.res.refs) >= 2
  /\ Len(last.res.col) >= 2
  /\ Cardinality(KeysOf(last.res.refs)) >= 3
  /\ Cardinality(Places(last.res.refs)) > Cardinality(KeysOf(last.res.refs))

\* The footnote is the wrapper around the items of the index, every key once,
\* item n being "(rank" \o mid \o key \o close, the items joined by ", " and
\* in the order of their ranks.
NoteLists(note, d, mid, close) ==
  LET body == SubSeq(note, Len(NoteHead) + 1, Len(note) - 1)
      toks == IF body = <<>> THEN <<>> ELSE split(body, ",")
      Item(n, k) ==
        (IF n > 1 THEN <<" ">> ELSE <<>>)
          \o <<"(">> \o str(d[k]) \o mid \o k \o close
  IN  /\ StartsWith(note, NoteHead)
      /\ note[Len(note)] = "}"
      /\ Len(toks) = Cardinality(DOMAIN d)
      /\ \A k \in DOMAIN d :
           Cardinality({n \in 1..Len(toks) : toks[n] = Item(n, k)}) = 1
      /\ \A k1 \in DOMAIN d, k2 \in DOMAIN d :
           \A n \in 1..Len(toks), m \in 1..Len(toks) :
             (n < m /\ toks[n] = Item(n, k1) /\ toks[m] = Item(m, k2))
               => d[k1] <= d[k2]

C3_FreshIndexPerCall ==
  Converted =>
    /\ DOMAIN table_refs = KeysOf(last.res.refs)
    /\ last.res \in order_refs(last.f, last.cols, EmptyDict)

\* C4: the lines of the output begin with the input lines up to and
\* including the start marker and end with the input lines after the end
\* marker, and the two do not overlap.
C4_LinesOutsideDataKept ==
  Converted =>
    LET table == ReadFile(last.f)
        start == index(table, StartMarker)
        end == index(table, EndMarker)
        lines == SplitLines(out[last.f])
        tail == Len(table) - (end + 1)
    IN  /\ Len(lines) >= (start + 1) + tail
        /\ SubSeq(lines, 1, start + 1) = SubSeq(table, 1, start + 1)
        /\ SubSeq(lines, Len(lines) - tail + 1, Len(lines))
             = SubSeq(table, end + 2, Len(table))

C4_Witness ==
  /\ Converted
  /\ last.f.shape = "ok"
  /\ Len(last.f.rows) >= 2
  /\ last.f \in DOMAIN out

\* C5: a call of order_refs either returns and has written the whole output
\* file, through to the last input line, or raises and has left every output
\* file as it was (not created, not written).
C5_AllOrNothing ==
  [][(last'.kind = "order_refs" /\ calls' = calls + 1) =>
       IF last'.res.status = "ok"
       THEN /\ last'.f \in DOMAIN out'
            /\ LET table == ReadFile(last'.f)
                   lines == SplitLines(out'[last'.f])
               IN  /\ Len(lines) >= Len(table)
                   /\ lines[Len(lines)] = table[Len(table)]
       ELSE out' = out]_vars

\* The runs that raise: the file is missing, a marker is missing and a field
\* has no citation group; here the end marker is missing.
C5_Witness ==
  /\ last.kind = "order_refs"
  /\ last.f.shape = "noend"
  /\ last.res.status = "ValueError"
  /\ last.f \notin DOMAIN out

\* C6: run from the command line with a file, the conversion is made, with
\* the last column when no column is given and with the columns given
\* otherwise.
C6_CommandLineColumns ==
  (last.kind = "main" /\ last.argv.hasFile) =>
    /\ last.called
    /\ last.cols = IF last.argv.colargs = <<>> THEN Last
                   ELSE Cols(last.argv.colargs)

\* C7: every rewritten cell is the ranks of its keys, sorted as strings and
\* joined by ", ".
C7_CellIsSortedRanks ==
  Converted =>
    \A i \in 1..Len(last.res.data), j \in 1..Len(last.res.col) :
      last.res.data[i][last.res.col[j] + 1] =
        join(CommaSpace,
             sorted([n \in 1..Len(last.res.refs[i][j]) |->
                       str(table_refs[last.res.refs[i][j][n]])]))

strip(s) == lstrip(rstrip(s, Whitespace), Whitespace)

\* C8: the keys of the index are trimmed, and no two of them are equal after
\* trimming.
C8_KeysTrimmed ==
  /\ \A k \in DOMAIN table_refs : strip(k) = k
  /\ \A k1 \in DOMAIN table_refs, k2 \in DOMAIN table_refs :
       strip(k1) = strip(k2) => k1 = k2

\* C9: in the output the line after the end marker line is the footnote
\* line, and the output has one line more than the input.
C9_FootnoteRightAfterEndMarker ==
  (Converted /\ last.res.start < last.res.end) =>
    LET lines == SplitLines(out[last.f])
        e == index(lines, EndMarker)
    IN  /\ e # -1 /\ e + 2 <= Len(lines)
        /\ lines[e + 2] = last.res.tablenote \o <<"\n">>
        /\ Len(lines) = Len(ReadFile(last.f)) + 1

\* C10: with the first end marker at or before the first start marker,
\* order_refs fails and writes no output file, whatever cols is.
C10_MarkersInOrderOrFail ==
  LET table == ReadFile(last.f)
      start == index(table, StartMarker)
      end == index(table, EndMarker)
  IN  (last.kind = "order_refs" /\ Exists(last.f)
         /\ start # -1 /\ end # -1 /\ end <= start)
        => (last.res.status # "ok" /\ ~last.res.wrote)

====
